---- MODULE Spec2Model ----
(***************************************************************************)
(* Model of prediction_helper.py: the module-level artifact load, the risk *)
(* score calculator, the feature encoder, the scaling step and predict.    *)
(*                                                                         *)
(* A Python str that the code parses (the Medical History value) is a      *)
(* sequence of one-character strings; every other str is a TLA+ string.    *)
(* A Python dict is a function whose DOMAIN is the set of keys present.    *)
(* A one-row DataFrame is a record [columns, data]: the ordered column     *)
(* names and the value of each column in row 0.  A float produced by a     *)
(* division is the exact fraction [num, den].                              *)
(***************************************************************************)
EXTENDS Integers, Sequences, FiniteSets, TLC

(***************************************************************************)
(* Bounds of the model.                                                    *)
(***************************************************************************)
\* Longest medical history, counted in conditions joined by " & ".
MaxConds == 3
\* Number of keys in which an enumerated Raw Input differs from BaseInput.
MaxMods == 2

(***************************************************************************)
(* str.lower(), str.split(sep)                                             *)
(***************************************************************************)
Uppers == <<"A","B","C","D","E","F","G","H","I","J","K","L","M",
            "N","O","P","Q","R","S","T","U","V","W","X","Y","Z">>
Lowers == <<"a","b","c","d","e","f","g","h","i","j","k","l","m",
            "n","o","p","q","r","s","t","u","v","w","x","y","z">>

LowerChar(ch) ==
    IF \E i \in 1..Len(Uppers) : Uppers[i] = ch
    THEN Lowers[CHOOSE i \in 1..Len(Uppers) : Uppers[i] = ch]
    ELSE ch

UpperChar(ch) ==
    IF \E i \in 1..Len(Lowers) : Lowers[i] = ch
    THEN Uppers[CHOOSE i \in 1..Len(Lowers) : Lowers[i] = ch]
    ELSE ch

\* Lower without the case folding: the lookup becomes case-sensitive.
LowerAsIs(s) == s

\* s.lower()
Lower(s) == [i \in 1..Len(s) |-> LowerChar(s[i])]

\* s.upper(), used only to write inputs
Upper(s) == [i \in 1..Len(s) |-> UpperChar(s[i])]

\* s.capitalize() restricted to the first character, used only to write inputs
Capital(s) == [i \in 1..Len(s) |-> IF i = 1 THEN UpperChar(s[i]) ELSE s[i]]

\* Positions at which sep occurs in s.
Occurrences(s, sep) ==
    {i \in 1..(Len(s) - Len(sep) + 1) : SubSeq(s, i, i + Len(sep) - 1) = sep}

\* s.split(sep): cut at the leftmost occurrence, then split the rest.
RECURSIVE Split(_, _)
Split(s, sep) ==
    IF Occurrences(s, sep) = {}
    THEN <<s>>
    ELSE LET i == CHOOSE j \in Occurrences(s, sep) :
                      \A k \in Occurrences(s, sep) : j <= k
         IN  <<SubSeq(s, 1, i - 1)>>
                 \o Split(SubSeq(s, i + Len(sep), Len(s)), sep)

\* sep.join(parts), used only to write inputs
RECURSIVE Join(_, _)
Join(parts, sep) ==
    IF parts = <<>> THEN <<>>
    ELSE IF Len(parts) = 1 THEN parts[1]
    ELSE parts[1] \o sep \o Join(Tail(parts), sep)

(***************************************************************************)
(* calculate_normalized_risk                                               *)
(***************************************************************************)
s_diabetes == <<"d","i","a","b","e","t","e","s">>
s_heart_disease == <<"h","e","a","r","t"," ","d","i","s","e","a","s","e">>
s_high_blood_pressure ==
    <<"h","i","g","h"," ","b","l","o","o","d"," ","p","r","e","s","s","u","r","e">>
s_thyroid == <<"t","h","y","r","o","i","d">>
s_no_disease == <<"n","o"," ","d","i","s","e","a","s","e">>
s_none == <<"n","o","n","e">>
s_flu == <<"f","l","u">>
Separator == <<" ","&"," ">>

\* risk_scores.get(disease, 0)
risk_scores(disease) ==
    CASE disease = s_diabetes -> 6
      [] disease = s_heart_disease -> 8
      [] disease = s_high_blood_pressure -> 6
      [] disease = s_thyroid -> 5
      [] disease = s_no_disease -> 0
      [] disease = s_none -> 0
      [] OTHER -> 0

max_score == 14
min_score == 0

RECURSIVE SumScores(_)
SumScores(diseases) ==
    IF diseases = <<>> THEN 0
    ELSE risk_scores(Head(diseases)) + SumScores(Tail(diseases))

\* The value is the fraction num/den of the true division.
calculate_normalized_risk(medical_history) ==
    LET diseases == Split(Lower(medical_history), Separator)
        total_risk_score == SumScores(diseases)
    IN  [num |-> total_risk_score - min_score, den |-> max_score - min_score]

(***************************************************************************)
(* pandas: a one-row DataFrame                                             *)
(***************************************************************************)
Range(seq) == {seq[i] : i \in 1..Len(seq)}

\* pd.DataFrame(0, columns=columns, index=[0])
DataFrame(columns) ==
    [columns |-> columns, data |-> [c \in Range(columns) |-> 0]]

\* df[col] = v: overwrite the column, or append it as the last column.
SetCol(df, col, v) ==
    IF col \in Range(df.columns)
    THEN [df EXCEPT !.data[col] = v]
    ELSE [columns |-> Append(df.columns, col),
          data    |-> [c \in Range(df.columns) \cup {col} |->
                          IF c = col THEN v ELSE df.data[c]]]

\* DropCol that drops nothing: the placeholder stays in the frame.
DropColKeeps(df, col) == df

\* df.drop(col, axis="columns", inplace=True)
DropCol(df, col) ==
    [columns |-> SelectSeq(df.columns, LAMBDA c : c # col),
     data    |-> [c \in Range(df.columns) \ {col} |-> df.data[c]]]

(***************************************************************************)
(* The loop of preprocess_input                                            *)
(***************************************************************************)
expected_columns ==
    << "age", "number_of_dependants", "income_lakhs", "insurance_plan",
       "genetical_risk", "normalized_risk_score", "gender_Male",
       "region_Northwest", "region_Southeast", "region_Southwest",
       "marital_status_Unmarried", "bmi_category_Obesity",
       "bmi_category_Overweight", "bmi_category_Underweight",
       "smoking_status_Occasional", "smoking_status_Regular",
       "employment_status_Salaried", "employment_status_Self-Employed" >>

\* insurance_plan_encoding with .get(value, 0): an unknown plan maps to 0.
insurance_plan_encoding_get0(value) ==
    CASE value = "Bronze" -> 1
      [] value = "Silver" -> 2
      [] value = "Gold" -> 3
      [] OTHER -> 0

\* insurance_plan_encoding.get(value, 1)
insurance_plan_encoding(value) ==
    CASE value = "Bronze" -> 1
      [] value = "Silver" -> 2
      [] value = "Gold" -> 3
      [] OTHER -> 1

\* MapKey with the test of the Gender value left out: any Gender sets gender_Male.
MapKeyAnyGender(df, key, value) ==
    IF key = "Gender"
    THEN SetCol(df, "gender_Male", 1)
    ELSE IF key = "Region"
    THEN IF value \in {"Northwest", "Southeast", "Southwest"}
         THEN SetCol(df, "region_" \o value, 1)
         ELSE df
    ELSE IF key = "Marital Status" /\ value = "Unmarried"
    THEN SetCol(df, "marital_status_Unmarried", 1)
    ELSE IF key = "BMI Category" /\ value \in {"Obesity", "Overweight", "Underweight"}
    THEN SetCol(df, "bmi_category_" \o value, 1)
    ELSE IF key = "Smoking Status" /\ value \in {"Occasional", "Regular"}
    THEN SetCol(df, "smoking_status_" \o value, 1)
    ELSE IF key = "Employment Status" /\ value \in {"Salaried", "Self-Employed"}
    THEN SetCol(df, "employment_status_" \o value, 1)
    ELSE IF key = "Insurance Plan"
    THEN SetCol(df, "insurance_plan", insurance_plan_encoding(value))
    ELSE IF key = "Age"
    THEN SetCol(df, "age", value)
    ELSE IF key = "Number of Dependants"
    THEN SetCol(df, "number_of_dependants", value)
    ELSE IF key = "Income in Lakhs"
    THEN SetCol(df, "income_lakhs", value)
    ELSE IF key = "Genetical Risk"
    THEN SetCol(df, "genetical_risk", value)
    ELSE df

\* One iteration of "for key, value in input_dict.items()".
MapKey(df, key, value) ==
    IF key = "Gender" /\ value = "Male"
    THEN SetCol(df, "gender_Male", 1)
    ELSE IF key = "Region"
    THEN IF value \in {"Northwest", "Southeast", "Southwest"}
         THEN SetCol(df, "region_" \o value, 1)
         ELSE df
    ELSE IF key = "Marital Status" /\ value = "Unmarried"
    THEN SetCol(df, "marital_status_Unmarried", 1)
    ELSE IF key = "BMI Category" /\ value \in {"Obesity", "Overweight", "Underweight"}
    THEN SetCol(df, "bmi_category_" \o value, 1)
    ELSE IF key = "Smoking Status" /\ value \in {"Occasional", "Regular"}
    THEN SetCol(df, "smoking_status_" \o value, 1)
    ELSE IF key = "Employment Status" /\ value \in {"Salaried", "Self-Employed"}
    THEN SetCol(df, "employment_status_" \o value, 1)
    ELSE IF key = "Insurance Plan"
    THEN SetCol(df, "insurance_plan", insurance_plan_encoding(value))
    ELSE IF key = "Age"
    THEN SetCol(df, "age", value)
    ELSE IF key = "Number of Dependants"
    THEN SetCol(df, "number_of_dependants", value)
    ELSE IF key = "Income in Lakhs"
    THEN SetCol(df, "income_lakhs", value)
    ELSE IF key = "Genetical Risk"
    THEN SetCol(df, "genetical_risk", value)
    ELSE df

\* The keys a Raw Input may hold, in the order the loop visits those present.
\* Each key writes only columns of its own, so the order does not show.
Keys ==
    << "Age", "Gender", "Region", "Marital Status", "BMI Category",
       "Smoking Status", "Employment Status", "Insurance Plan",
       "Number of Dependants", "Income in Lakhs", "Genetical Risk",
       "Medical History" >>

RECURSIVE MapItems(_, _, _)
MapItems(df, input_dict, i) ==
    IF i > Len(Keys) THEN df
    ELSE IF Keys[i] \in DOMAIN input_dict
    THEN MapItems(MapKey(df, Keys[i], input_dict[Keys[i]]), input_dict, i + 1)
    ELSE MapItems(df, input_dict, i + 1)

\* MapInput that fills in the Bronze default when the key Insurance Plan is absent.
MapInputDefaultBronze(input_dict) ==
    LET d == MapItems(DataFrame(expected_columns), input_dict, 1)
    IN  IF "Insurance Plan" \in DOMAIN input_dict THEN d ELSE SetCol(d, "insurance_plan", 1)

\* preprocess_input up to the end of the loop.
MapInput(input_dict) == MapItems(DataFrame(expected_columns), input_dict, 1)

(***************************************************************************)
(* The artifact files and the environment of the import                    *)
(***************************************************************************)
ARTIFACTS_DIR == "artifacts"

\* The four files, in the order the module loads them.
ArtifactFiles ==
    << "model_young.joblib", "model_rest.joblib",
       "scaler_young.joblib", "scaler_rest.joblib" >>

\* The global each file is bound to.
GlobalNames == << "model_young", "model_rest", "scaler_young", "scaler_rest" >>

\* os.path.join(ARTIFACTS_DIR, name)
PathOf(name) == ARTIFACTS_DIR \o "/" \o name

\* Column subsets a scaler bundle may declare.
ColsToScaleChoices ==
    { << "age", "number_of_dependants", "income_level", "income_lakhs",
         "insurance_plan", "genetical_risk" >>,
      << "age", "income_level", "income_lakhs" >> }

\* What a file can unpickle to.  A model is a linear stand-in for the opaque
\* regressor, its prediction counted in tenths; a scaler maps x to
\* x * scale_ + min_ on every column, as a fitted min-max scaler does.
ObjectsOf(file) ==
    CASE file = "model_young.joblib" ->
            {[src |-> file, intercept |-> 43, coef |-> 7]}
      [] file = "model_rest.joblib" ->
            {[src |-> file, intercept |-> -128, coef |-> 9]}
      [] file = "scaler_young.joblib" ->
            {[src |-> file, cols_to_scale |-> cs, scaler |-> [scale_ |-> 2, min_ |-> 1]]
                 : cs \in ColsToScaleChoices}
      [] file = "scaler_rest.joblib" ->
            {[src |-> file, cols_to_scale |-> cs, scaler |-> [scale_ |-> 3, min_ |-> -1]]
                 : cs \in ColsToScaleChoices}

\* The module a file's pickle imports when it is decoded.
ModuleOf(file) ==
    IF file \in {"model_young.joblib", "model_rest.joblib"} THEN "xgboost" ELSE "sklearn"

\* A file is absent, or needs a module the host lacks, or decodes to an object.
FileStates(file) ==
    {[kind |-> "absent"], [kind |-> "needs_module", module |-> ModuleOf(file)]}
        \cup {[kind |-> "object", obj |-> o] : o \in ObjectsOf(file)}

Unbound == [unbound |-> TRUE]
NoError == [type |-> "none"]

(***************************************************************************)
(* Raw Inputs                                                              *)
(***************************************************************************)
BaseInput ==
    [k \in Range(Keys) |->
        CASE k = "Age" -> 25
          [] k = "Gender" -> "Male"
          [] k = "Region" -> "Southeast"
          [] k = "Marital Status" -> "Unmarried"
          [] k = "BMI Category" -> "Normal"
          [] k = "Smoking Status" -> "Never"
          [] k = "Employment Status" -> "Salaried"
          [] k = "Insurance Plan" -> "Gold"
          [] k = "Number of Dependants" -> 2
          [] k = "Income in Lakhs" -> 10
          [] k = "Genetical Risk" -> 3
          [] k = "Medical History" -> s_diabetes]

\* The values a key takes in the enumerated inputs.
ValuesOf(k) ==
    CASE k = "Age" -> {24, 25, 26}
      [] k = "Gender" -> {"Male", "Female"}
      [] k = "Region" ->
            {"Northwest", "Southeast", "Southwest", "Northeast", "Atlantis", "Obesity"}
      [] k = "Marital Status" -> {"Unmarried", "Married"}
      [] k = "BMI Category" ->
            {"Obesity", "Overweight", "Underweight", "Normal", "Regular"}
      [] k = "Smoking Status" -> {"Occasional", "Regular", "Never"}
      [] k = "Employment Status" -> {"Salaried", "Self-Employed", "Freelancer"}
      [] k = "Insurance Plan" -> {"Bronze", "Silver", "Gold", "Platinum"}
      [] k = "Number of Dependants" -> {0, 2}
      [] k = "Income in Lakhs" -> {10, 30}
      [] k = "Genetical Risk" -> {0, 3}
      [] k = "Medical History" -> {s_diabetes, s_none}

\* d with key k bound to v.
WithKey(d, k, v) == [j \in DOMAIN d \cup {k} |-> IF j = k THEN v ELSE d[j]]

\* Inputs over the keys Keys[i..]: BaseInput with at most budget keys
\* rebound to another value or left out.
RECURSIVE Variants(_, _)
Variants(i, budget) ==
    IF i > Len(Keys) THEN {<<>>}
    ELSE LET k == Keys[i]
         IN  {WithKey(d, k, BaseInput[k]) : d \in Variants(i + 1, budget)}
             \cup
             (IF budget = 0 THEN {}
              ELSE Variants(i + 1, budget - 1)
                   \cup UNION {{WithKey(d, k, v) : d \in Variants(i + 1, budget - 1)}
                                  : v \in ValuesOf(k) \ {BaseInput[k]}})

ModInputs == Variants(1, MaxMods)

\* The condition names a medical history is written with: the six of the
\* weight table and one the table does not hold.
KnownNames ==
    {s_diabetes, s_heart_disease, s_high_blood_pressure, s_thyroid, s_no_disease, s_none}
Names == KnownNames \cup {s_flu}

\* Lists of at most n pairwise different names.
RECURSIVE NameLists(_)
NameLists(n) ==
    IF n = 0 THEN {<<>>}
    ELSE NameLists(n - 1)
         \cup {Append(l, d) : l \in {m \in NameLists(n - 1) : Len(m) = n - 1},
                              d \in Names}

DistinctLists(n) == {l \in NameLists(n) : Cardinality(Range(l)) = Len(l)}

\* A list written as the user types it: lower case, first letter of each
\* name capitalised, or upper case.
Written(l, style) ==
    CASE style = "lower" -> Join(l, Separator)
      [] style = "Capital" -> Join([i \in 1..Len(l) |-> Capital(l[i])], Separator)
      [] style = "UPPER" -> Upper(Join(l, Separator))

Styles == {"lower", "Capital", "UPPER"}

MedicalHistories == {Written(l, st) : l \in DistinctLists(MaxConds), st \in Styles}

HistInputs == {WithKey(BaseInput, "Medical History", h) : h \in MedicalHistories}

Inputs == ModInputs \cup HistInputs

(***************************************************************************)
(* State                                                                   *)
(***************************************************************************)
VARIABLES
    dir_exists,     \* whether the artifacts directory exists
    files,          \* what each artifact file holds
    module,         \* "unloaded", "loaded" or "failed": the import of the module
    load_error,     \* the exception the import ended in
    globals,        \* model_young, model_rest, scaler_young, scaler_rest
    loads,          \* how often each file has been decoded
    pc,             \* where each caller's predict call stands
    input_dict,     \* the Raw Input of the call
    df,             \* the DataFrame of the call
    X,              \* the frame the call handed to scaler.transform
    scaler_object,  \* the bundle handle_scaling selected
    model,          \* the model predict selected
    result,         \* the value predict returned
    error           \* the exception predict ended in

vars == << dir_exists, files, module, load_error, globals, loads, pc, input_dict,
           df, X, scaler_object, model, result, error >>

env_vars == << dir_exists, files, module, load_error, globals, loads >>

\* The threads that may call predict.
Callers == {"t1", "t2"}

model_young == globals["model_young"]
model_rest == globals["model_rest"]
scaler_young == globals["scaler_young"]
scaler_rest == globals["scaler_rest"]

Init ==
    /\ dir_exists \in BOOLEAN
    /\ files \in [Range(ArtifactFiles) -> UNION {FileStates(f) : f \in Range(ArtifactFiles)}]
    /\ \A f \in Range(ArtifactFiles) :
          /\ files[f] \in FileStates(f)
          /\ ~dir_exists => files[f].kind = "absent"
    /\ module = "unloaded"
    /\ load_error = NoError
    /\ globals = [g \in Range(GlobalNames) |-> Unbound]
    /\ loads = [f \in Range(ArtifactFiles) |-> 0]
    /\ pc = [c \in Callers |-> "idle"]
    /\ input_dict = [c \in Callers |-> Unbound]
    /\ df = [c \in Callers |-> Unbound]
    /\ X = [c \in Callers |-> Unbound]
    /\ scaler_object = [c \in Callers |-> Unbound]
    /\ model = [c \in Callers |-> Unbound]
    /\ result = [c \in Callers |-> Unbound]
    /\ error = [c \in Callers |-> NoError]

(***************************************************************************)
(* Import of the module: makedirs, then the four joblib.load calls         *)
(***************************************************************************)
\* Index of the first file whose load raises, or 0.
FirstFailing ==
    IF \A i \in 1..Len(ArtifactFiles) : files[ArtifactFiles[i]].kind = "object"
    THEN 0
    ELSE CHOOSE i \in 1..Len(ArtifactFiles) :
            /\ files[ArtifactFiles[i]].kind # "object"
            /\ \A j \in 1..(i - 1) : files[ArtifactFiles[j]].kind = "object"

\* LoadError that re-raises without the name of the file or module.
LoadErrorUnnamed(i) ==
    IF files[ArtifactFiles[i]].kind = "needs_module"
    THEN [type |-> "ModuleNotFoundError", names |-> "None"]
    ELSE [type |-> "FileNotFoundError", names |-> "None"]

\* The exception re-raised by the except clauses for the file at index i.
LoadError(i) ==
    LET f == ArtifactFiles[i]
    IN  IF files[f].kind = "needs_module"
        THEN [type |-> "ModuleNotFoundError", names |-> files[f].module]
        ELSE [type |-> "FileNotFoundError", names |-> PathOf(f)]

LoadArtifacts ==
    /\ module = "unloaded"
    /\ dir_exists' = TRUE
    /\ LET n == FirstFailing
           last == IF n = 0 THEN Len(ArtifactFiles) ELSE n
       IN  /\ loads' = [f \in Range(ArtifactFiles) |->
                          IF \E i \in 1..last : ArtifactFiles[i] = f
                          THEN loads[f] + 1 ELSE loads[f]]
           /\ globals' = [g \in Range(GlobalNames) |->
                            LET i == CHOOSE j \in 1..Len(GlobalNames) : GlobalNames[j] = g
                            IN  IF n = 0 \/ i < n
                                THEN files[ArtifactFiles[i]].obj
                                ELSE Unbound]
           /\ module' = IF n = 0 THEN "loaded" ELSE "failed"
           /\ load_error' = IF n = 0 THEN NoError ELSE LoadError(n)
    /\ UNCHANGED << files, pc, input_dict, df, X, scaler_object, model, result, error >>

(***************************************************************************)
(* handle_scaling                                                          *)
(***************************************************************************)
SelectScaler(age) == IF age <= 25 THEN scaler_young ELSE scaler_rest

\* df[cols]
Columns(frame, cols) == [c \in Range(cols) |-> frame.data[c]]

\* scaler.transform(X)
Transform(scaler, frame) ==
    [c \in DOMAIN frame |-> frame[c] * scaler.scale_ + scaler.min_]

\* df[cols] = values
AssignCols(frame, cols, values) ==
    [frame EXCEPT !.data = [c \in DOMAIN frame.data |->
                               IF c \in Range(cols) THEN values[c] ELSE frame.data[c]]]

\* The frame after line 57.
WithPlaceholder(frame) == SetCol(frame, "income_level", 0)

handle_scaling(age, frame) ==
    LET so == SelectScaler(age)
        cols_to_scale == so.cols_to_scale
        scaler == so.scaler
        df1 == WithPlaceholder(frame)
        df2 == AssignCols(df1, cols_to_scale,
                          Transform(scaler, Columns(df1, cols_to_scale)))
    IN  DropCol(df2, "income_level")

(***************************************************************************)
(* predict                                                                 *)
(***************************************************************************)
\* SelectModel with the threshold off by one: Age 25 goes to the rest model.
SelectModelBelow25(age) == IF age < 25 THEN model_young ELSE model_rest

SelectModel(age) == IF age <= 25 THEN model_young ELSE model_rest

RECURSIVE SumColumns(_, _)
SumColumns(frame, i) ==
    IF i > Len(frame.columns) THEN 0
    ELSE (IF frame.columns[i] = "normalized_risk_score" THEN 0
          ELSE frame.data[frame.columns[i]])
         + SumColumns(frame, i + 1)

\* model.predict(input_df)[0], in tenths
ModelPredict(m, frame) == m.intercept + m.coef * SumColumns(frame, 1)

\* int(x) of a float given in tenths: truncation toward zero
IntOf(tenths) == IF tenths >= 0 THEN tenths \div 10 ELSE -((-tenths) \div 10)

KeyError(key) == [type |-> "KeyError", key |-> key]

\* predict is entered with a Raw Input; the module has been imported.
Call(c, pool) ==
    /\ module = "loaded"
    /\ pc[c] = "idle"
    /\ \E d \in pool : input_dict' = [input_dict EXCEPT ![c] = d]
    /\ pc' = [pc EXCEPT ![c] = "preprocess_input"]
    /\ UNCHANGED << env_vars, df, X, scaler_object, model, result, error >>

\* Lines 65-113: the frame of zeros and the loop over the items.
Encode(c) ==
    /\ pc[c] = "preprocess_input"
    /\ df' = [df EXCEPT ![c] = MapInput(input_dict[c])]
    /\ pc' = [pc EXCEPT ![c] = "calculate_normalized_risk"]
    /\ UNCHANGED << env_vars, input_dict, X, scaler_object, model, result, error >>

\* Risk with input_dict.get("Medical History", "none"): a missing history
\* is scored as "none" and the call goes on.
RiskDefaultNone(c) ==
    /\ pc[c] = "calculate_normalized_risk"
    /\ LET h == IF "Medical History" \in DOMAIN input_dict[c]
                THEN input_dict[c]["Medical History"] ELSE s_none
       IN  df' = [df EXCEPT ![c] =
                     SetCol(@, "normalized_risk_score", calculate_normalized_risk(h))]
    /\ pc' = [pc EXCEPT ![c] = "handle_scaling"]
    /\ UNCHANGED << env_vars, input_dict, X, scaler_object, model, result, error >>

\* Line 115.
Risk(c) ==
    /\ pc[c] = "calculate_normalized_risk"
    /\ IF "Medical History" \in DOMAIN input_dict[c]
       THEN /\ df' = [df EXCEPT ![c] =
                        SetCol(@, "normalized_risk_score",
                               calculate_normalized_risk(input_dict[c]["Medical History"]))]
            /\ pc' = [pc EXCEPT ![c] = "handle_scaling"]
            /\ UNCHANGED error
       ELSE /\ error' = [error EXCEPT ![c] = KeyError("Medical History")]
            /\ pc' = [pc EXCEPT ![c] = "raised"]
            /\ UNCHANGED df
    /\ UNCHANGED << env_vars, input_dict, X, scaler_object, model, result >>

\* Scale with scaler.fit_transform in place of scaler.transform: the call
\* refits the shared scaler on its own row.
ScaleRefits(c) ==
    /\ pc[c] = "handle_scaling"
    /\ "Age" \in DOMAIN input_dict[c]
    /\ LET age == input_dict[c]["Age"]
           g == IF age <= 25 THEN "scaler_young" ELSE "scaler_rest"
       IN  /\ scaler_object' = [scaler_object EXCEPT ![c] = SelectScaler(age)]
           /\ X' = [X EXCEPT ![c] =
                      Columns(WithPlaceholder(df[c]), SelectScaler(age).cols_to_scale)]
           /\ df' = [df EXCEPT ![c] = handle_scaling(age, @)]
           /\ globals' = [globals EXCEPT ![g].scaler.min_ = 0 - age]
    /\ pc' = [pc EXCEPT ![c] = "model_predict"]
    /\ UNCHANGED << dir_exists, files, module, load_error, loads, input_dict,
                    model, result, error >>

\* Line 116.
Scale(c) ==
    /\ pc[c] = "handle_scaling"
    /\ IF "Age" \in DOMAIN input_dict[c]
       THEN LET age == input_dict[c]["Age"]
            IN  /\ scaler_object' = [scaler_object EXCEPT ![c] = SelectScaler(age)]
                /\ X' = [X EXCEPT ![c] =
                           Columns(WithPlaceholder(df[c]), SelectScaler(age).cols_to_scale)]
                /\ df' = [df EXCEPT ![c] = handle_scaling(age, @)]
                /\ pc' = [pc EXCEPT ![c] = "model_predict"]
                /\ UNCHANGED error
       ELSE /\ error' = [error EXCEPT ![c] = KeyError("Age")]
            /\ pc' = [pc EXCEPT ![c] = "raised"]
            /\ UNCHANGED << df, X, scaler_object >>
    /\ UNCHANGED << env_vars, input_dict, model, result >>

\* Lines 123-125.
Invoke(c) ==
    /\ pc[c] = "model_predict"
    /\ LET m == SelectModel(input_dict[c]["Age"])
       IN  /\ model' = [model EXCEPT ![c] = m]
           /\ result' = [result EXCEPT ![c] = [value |-> IntOf(ModelPredict(m, df[c]))]]
    /\ pc' = [pc EXCEPT ![c] = "returned"]
    /\ UNCHANGED << env_vars, input_dict, df, X, scaler_object, error >>

\* The call is over and its locals are gone; the caller may call again.
Return(c) ==
    /\ pc[c] \in {"returned", "raised"}
    /\ pc' = [pc EXCEPT ![c] = "idle"]
    /\ input_dict' = [input_dict EXCEPT ![c] = Unbound]
    /\ df' = [df EXCEPT ![c] = Unbound]
    /\ X' = [X EXCEPT ![c] = Unbound]
    /\ scaler_object' = [scaler_object EXCEPT ![c] = Unbound]
    /\ model' = [model EXCEPT ![c] = Unbound]
    /\ result' = [result EXCEPT ![c] = Unbound]
    /\ error' = [error EXCEPT ![c] = NoError]
    /\ UNCHANGED env_vars

\* One caller, every enumerated input.
Next ==
    \/ LoadArtifacts
    \/ Call("t1", Inputs)
    \/ Encode("t1")
    \/ Risk("t1")
    \/ Scale("t1")
    \/ Invoke("t1")
    \/ Return("t1")

Spec == Init /\ [][Next]_vars

\* The inputs of the concurrent callers.
ConcInputs ==
    { BaseInput,
      WithKey(BaseInput, "Age", 26),
      WithKey(BaseInput, "Region", "Atlantis"),
      WithKey(BaseInput, "Medical History", Join(<<s_heart_disease, s_diabetes>>, Separator)),
      [k \in Range(Keys) \ {"Age"} |-> BaseInput[k]],
      [k \in Range(Keys) \ {"Medical History"} |-> BaseInput[k]] }

\* Two callers whose calls interleave step by step.
NextConc ==
    \/ LoadArtifacts
    \/ \E c \in Callers :
          \/ Call(c, ConcInputs)
          \/ Encode(c)
          \/ Risk(c)
          \/ Scale(c)
          \/ Invoke(c)
          \/ Return(c)

SpecConc == Init /\ [][NextConc]_vars

(***************************************************************************)
(* Properties                                                              *)
(***************************************************************************)
\* The call of c has left the loop and has not yet scaled: df[c] is the
\* frame as the loop left it.
AfterLoop(c) == pc[c] \in {"calculate_normalized_risk", "handle_scaling"}

\* Line 115 has run: df[c] is the encoded row, not yet scaled.
Encoded(c) == pc[c] = "handle_scaling"

History(c) == input_dict[c]["Medical History"]
Score(c) == df[c].data["normalized_risk_score"]

\* The weight table as the specification states it.
StatedWeight(name) ==
    IF name = s_heart_disease THEN 8
    ELSE IF name \in {s_diabetes, s_high_blood_pressure} THEN 6
    ELSE IF name = s_thyroid THEN 5
    ELSE 0

RECURSIVE StatedSum(_)
StatedSum(l) == IF l = <<>> THEN 0 ELSE StatedWeight(Head(l)) + StatedSum(Tail(l))

\* Each enumerated history with the sum of the stated weights of its conditions.
StatedScores ==
    {<<Written(l, st), StatedSum(l)>> : l \in DistinctLists(MaxConds), st \in Styles}

\* The enumerated histories written with known condition names only.
KnownHistories ==
    {Written(l, st) : l \in {m \in DistinctLists(MaxConds) :
                                 m # <<>> /\ Range(m) \subseteq KnownNames},
                      st \in Styles}

\* C1: for every medical history made only of known condition names joined
\* by " & ", the normalized risk score lies in [0,1].
C1_ScoreInUnitInterval ==
    \A c \in Callers :
        (Encoded(c) /\ History(c) \in KnownHistories)
            => /\ Score(c).den > 0
               /\ 0 <= Score(c).num
               /\ Score(c).num <= Score(c).den

\* C3: the score is (sum of the stated weights of the " & "-separated
\* conditions) / 14, names matched without regard to case and an unknown
\* name counted as 0; "none" gives 0 and "heart disease & diabetes" gives 1.
C3_ScoreIsWeightSumOver14 ==
    \A c \in Callers :
        (Encoded(c) /\ History(c) \in MedicalHistories)
            => /\ Score(c).den = 14
               /\ <<History(c), Score(c).num>> \in StatedScores
               /\ History(c) = s_none => Score(c).num = 0
               /\ History(c) = Join(<<s_heart_disease, s_diabetes>>, Separator)
                      => Score(c).num = Score(c).den

C3_Witness ==
    \E c \in Callers :
        /\ Encoded(c)
        /\ History(c) = Written(<<s_heart_disease, s_flu, s_diabetes>>, "Capital")
        /\ Score(c) = [num |-> 14, den |-> 14]

Young(obj) == obj.src \in {"scaler_young.joblib", "model_young.joblib"}
Rest(obj) == obj.src \in {"scaler_rest.joblib", "model_rest.joblib"}

\* C2: the scaler handle_scaling selects and the model predict selects
\* belong to the same age bracket: both young for Age <= 25 (25 included),
\* both rest for Age > 25 (26 included).
C2_SameBracket ==
    \A c \in Callers :
        /\ scaler_object[c] # Unbound =>
              IF input_dict[c]["Age"] <= 25
              THEN scaler_object[c] = scaler_young /\ Young(scaler_object[c])
              ELSE scaler_object[c] = scaler_rest /\ Rest(scaler_object[c])
        /\ model[c] # Unbound =>
              /\ scaler_object[c] # Unbound
              /\ IF input_dict[c]["Age"] <= 25
                 THEN model[c] = model_young /\ Young(model[c]) /\ Young(scaler_object[c])
                 ELSE model[c] = model_rest /\ Rest(model[c]) /\ Rest(scaler_object[c])

C2_Witness ==
    \E c \in Callers :
        /\ pc[c] = "returned"
        /\ input_dict[c]["Age"] = 25
        /\ scaler_object[c].src = "scaler_young.joblib"
        /\ model[c].src = "model_young.joblib"

Required == {"Age", "Medical History"}
LacksRequired(c) ==
    input_dict[c] # Unbound /\ ~(Required \subseteq DOMAIN input_dict[c])

\* C4: a Raw Input without the key Age or without the key Medical History
\* ends predict in a KeyError whose key is a required key the input lacks;
\* the call never passes the line that reads the missing key, hands nothing
\* to a scaler, selects no model and returns no value.
C4_MissingKeyRaises ==
    \A c \in Callers :
        LacksRequired(c) =>
            /\ pc[c] # "returned"
            /\ pc[c] = "raised" =>
                  /\ error[c].type = "KeyError"
                  /\ error[c].key \in Required \ DOMAIN input_dict[c]
            /\ pc[c] = "handle_scaling" => "Medical History" \in DOMAIN input_dict[c]
            /\ pc[c] # "model_predict"
            /\ X[c] = Unbound
            /\ scaler_object[c] = Unbound
            /\ model[c] = Unbound
            /\ result[c] = Unbound

C4_Witness ==
    \E c \in Callers :
        /\ pc[c] = "raised"
        /\ DOMAIN input_dict[c] = Range(Keys) \ {"Age", "Gender"}
        /\ error[c] = KeyError("Age")
        /\ result[c] = Unbound

\* The categorical keys, and for each the one-hot fields of its group.
CategoricalKeys ==
    {"Gender", "Region", "Marital Status", "BMI Category", "Smoking Status",
     "Employment Status"}

GroupFields(k) ==
    CASE k = "Gender" -> {"gender_Male"}
      [] k = "Region" -> {"region_Northwest", "region_Southeast", "region_Southwest"}
      [] k = "Marital Status" -> {"marital_status_Unmarried"}
      [] k = "BMI Category" ->
            {"bmi_category_Obesity", "bmi_category_Overweight", "bmi_category_Underweight"}
      [] k = "Smoking Status" -> {"smoking_status_Occasional", "smoking_status_Regular"}
      [] k = "Employment Status" ->
            {"employment_status_Salaried", "employment_status_Self-Employed"}

\* The fields a value of key k is stated to set: one for a recognized
\* value, none for any other.
StatedFields(k, v) ==
    CASE k = "Gender" /\ v = "Male" -> {"gender_Male"}
      [] k = "Region" /\ v = "Northwest" -> {"region_Northwest"}
      [] k = "Region" /\ v = "Southeast" -> {"region_Southeast"}
      [] k = "Region" /\ v = "Southwest" -> {"region_Southwest"}
      [] k = "Marital Status" /\ v = "Unmarried" -> {"marital_status_Unmarried"}
      [] k = "BMI Category" /\ v = "Obesity" -> {"bmi_category_Obesity"}
      [] k = "BMI Category" /\ v = "Overweight" -> {"bmi_category_Overweight"}
      [] k = "BMI Category" /\ v = "Underweight" -> {"bmi_category_Underweight"}
      [] k = "Smoking Status" /\ v = "Occasional" -> {"smoking_status_Occasional"}
      [] k = "Smoking Status" /\ v = "Regular" -> {"smoking_status_Regular"}
      [] k = "Employment Status" /\ v = "Salaried" -> {"employment_status_Salaried"}
      [] k = "Employment Status" /\ v = "Self-Employed" ->
            {"employment_status_Self-Employed"}
      [] OTHER -> {}

\* C5: in the row the loop leaves, a categorical value outside the
\* recognized set raises nothing and leaves every field of its group at 0;
\* a recognized value sets its own field to 1 and no other field of the group.
C5_OneHotGroups ==
    \A c \in Callers :
        AfterLoop(c) =>
            /\ error[c] = NoError
            /\ \A k \in CategoricalKeys \cap DOMAIN input_dict[c] :
                  \A f \in GroupFields(k) :
                      df[c].data[f] =
                          IF f \in StatedFields(k, input_dict[c][k]) THEN 1 ELSE 0

C5_Witness ==
    \E c \in Callers :
        /\ Encoded(c)
        /\ {"Region", "BMI Category"} \subseteq DOMAIN input_dict[c]
        /\ input_dict[c]["Region"] = "Atlantis"
        /\ input_dict[c]["BMI Category"] = "Overweight"
        /\ \A f \in GroupFields("Region") : df[c].data[f] = 0
        /\ df[c].data["bmi_category_Overweight"] = 1
        /\ df[c].data["bmi_category_Obesity"] = 0
        /\ error[c] = NoError

\* C6: handle_scaling returns the 18 columns of its input in the same
\* order; income_level is 0 in the frame handed to the transform and is no
\* column of the result; a column outside the selected bundle's
\* cols_to_scale keeps its value.
C6_ScalingFrame ==
    [][\A c \in Callers :
          (pc[c] = "handle_scaling" /\ pc'[c] = "model_predict") =>
              /\ df'[c].columns = df[c].columns
              /\ Len(df'[c].columns) = 18
              /\ DOMAIN df'[c].data = Range(df[c].columns)
              /\ "income_level" \notin DOMAIN df'[c].data
              /\ "income_level" \notin Range(df[c].columns)
              /\ "income_level" \in DOMAIN X'[c] => X'[c]["income_level"] = 0
              /\ \A col \in Range(df[c].columns) \ Range(scaler_object'[c].cols_to_scale) :
                    df'[c].data[col] = df[c].data[col]]_vars

C6_Witness ==
    \E c \in Callers :
        /\ pc[c] = "model_predict"
        /\ df[c].columns = expected_columns
        /\ X[c]["income_level"] = 0
        /\ "insurance_plan" \notin DOMAIN X[c]
        /\ df[c].data["age"] # input_dict[c]["Age"]
        /\ df[c].data["insurance_plan"] = 3
        /\ df[c].data["gender_Male"] = 1

\* C7: each artifact file is decoded at most once and all four before any
\* predict call starts; when a file is absent or needs a module the host
\* lacks, the import fails with an error naming that file's path or that
\* module, and no predict call ever starts.
C7_LoadOnceOrFail ==
    /\ \A f \in Range(ArtifactFiles) : loads[f] <= 1
    /\ (\E c \in Callers : pc[c] # "idle") =>
          /\ module = "loaded"
          /\ \A i \in 1..Len(ArtifactFiles) :
                /\ loads[ArtifactFiles[i]] = 1
                /\ files[ArtifactFiles[i]].kind = "object"
                /\ globals[GlobalNames[i]] = files[ArtifactFiles[i]].obj
    /\ (module # "unloaded" /\ \E f \in Range(ArtifactFiles) : files[f].kind # "object") =>
          /\ module = "failed"
          /\ \E i \in 1..Len(ArtifactFiles) :
                LET f == ArtifactFiles[i]
                IN  /\ \A j \in 1..(i - 1) : files[ArtifactFiles[j]].kind = "object"
                    /\ \/ /\ files[f].kind = "absent"
                          /\ load_error = [type |-> "FileNotFoundError",
                                           names |-> "artifacts/" \o f]
                       \/ /\ files[f].kind = "needs_module"
                          /\ load_error = [type |-> "ModuleNotFoundError",
                                           names |-> files[f].module]
    /\ module = "failed" => \A c \in Callers : pc[c] = "idle"

C7_Witness ==
    /\ module = "failed"
    /\ files["model_young.joblib"].kind = "object"
    /\ files["model_rest.joblib"].kind = "object"
    /\ files["scaler_young.joblib"].kind = "absent"
    /\ files["scaler_rest.joblib"].kind = "object"
    /\ load_error.type = "FileNotFoundError"
    /\ load_error.names = "artifacts/scaler_young.joblib"

\* The encoding table as the specification states it.
StatedPlan(v) ==
    IF v = "Silver" THEN 2 ELSE IF v = "Gold" THEN 3 ELSE 1

\* C8: when the Raw Input has the key Insurance Plan, the encoded row's
\* insurance_plan is 1 for Bronze, 2 for Silver, 3 for Gold and 1 for any
\* other value.
C8_InsurancePlanEncoding ==
    \A c \in Callers :
        (AfterLoop(c) /\ "Insurance Plan" \in DOMAIN input_dict[c]) =>
            df[c].data["insurance_plan"] = StatedPlan(input_dict[c]["Insurance Plan"])

C8_Witness ==
    \E c \in Callers :
        /\ Encoded(c)
        /\ "Insurance Plan" \in DOMAIN input_dict[c]
        /\ input_dict[c]["Insurance Plan"] = "Platinum"
        /\ df[c].data["insurance_plan"] = 1

\* C9: once the module is imported no step of any predict call changes the
\* artifacts, and whatever the interleaving, two calls with the same Raw
\* Input that stand at the same line hold the same frame, the same scaler
\* and model and the same result.
C9_Independent ==
    /\ [][module = "loaded" => (globals' = globals /\ files' = files /\ module' = module)]_vars
    /\ [](\A c1, c2 \in Callers :
             (input_dict[c1] = input_dict[c2] /\ pc[c1] = pc[c2]) =>
                 /\ df[c1] = df[c2]
                 /\ X[c1] = X[c2]
                 /\ scaler_object[c1] = scaler_object[c2]
                 /\ model[c1] = model[c2]
                 /\ result[c1] = result[c2]
                 /\ error[c1] = error[c2])

C9_Witness ==
    /\ pc["t1"] = "returned"
    /\ pc["t2"] = "returned"
    /\ input_dict["t1"] = input_dict["t2"]
    /\ input_dict["t1"] # Unbound
    /\ df["t1"] = df["t2"]
    /\ result["t1"] = result["t2"]

PassThrough ==
    [k \in {"Number of Dependants", "Income in Lakhs", "Genetical Risk"} |->
        CASE k = "Number of Dependants" -> "number_of_dependants"
          [] k = "Income in Lakhs" -> "income_lakhs"
          [] k = "Genetical Risk" -> "genetical_risk"]

\* C10: when the Raw Input has no key Insurance Plan the loop raises
\* nothing and the encoded insurance_plan is the initial 0, not a value of
\* the encoding table; an absent Number of Dependants, Income in Lakhs or
\* Genetical Risk likewise leaves its field at 0; and a call that ends in an
\* error ends in the KeyError of a required key.
C10_AbsentKeyLeavesZero ==
    \A c \in Callers :
        /\ AfterLoop(c) =>
              /\ error[c] = NoError
              /\ "Insurance Plan" \notin DOMAIN input_dict[c] =>
                    /\ df[c].data["insurance_plan"] = 0
                    /\ df[c].data["insurance_plan"] \notin {1, 2, 3}
              /\ \A k \in DOMAIN PassThrough \ DOMAIN input_dict[c] :
                    df[c].data[PassThrough[k]] = 0
        /\ pc[c] = "raised" => error[c].key \in Required \ DOMAIN input_dict[c]

C10_Witness ==
    \E c \in Callers :
        /\ Encoded(c)
        /\ "Insurance Plan" \notin DOMAIN input_dict[c]
        /\ "Income in Lakhs" \notin DOMAIN input_dict[c]
        /\ df[c].data["insurance_plan"] = 0
        /\ df[c].data["income_lakhs"] = 0
        /\ error[c] = NoError

====
